---- MODULE Spec2Model ----
(***************************************************************************)
(* Model of simple-proxy (src/main.rs): an authenticated forward proxy     *)
(* built from a stack of rama layers around the service http_plain_proxy,  *)
(* served on a TCP listener under a graceful-shutdown guard.               *)
(*                                                                         *)
(* A request travels the layer stack in the order the layers were added    *)
(* to the ServiceBuilder (the first one is the outermost), reaches         *)
(* http_plain_proxy, which awaits HttpClient::serve, and the response      *)
(* travels the stack back.  main awaits shutdown_with_limit(30 s).         *)
(***************************************************************************)
EXTENDS Integers, Sequences, FiniteSets, TLC

VARIABLES
    phase,      \* main's position: "serving" | "draining" | "exited"
    exit,       \* main's return value: "none" | "ok" | "timeout"
    elapsed,    \* seconds since the termination signal
    conn        \* per connection: the session record of the serving task

vars == <<phase, exit, elapsed, conn>>

----------------------------------------------------------------------------
(* Bounds of the model *)

\* connections the shutdown specification runs concurrently
MaxConns == 2
\* headers a message carries besides Authorization and User-Agent
MaxExtra == 2

----------------------------------------------------------------------------
(* Configuration read by main *)

\* PROXY_AUTH_TOKEN
auth_token == "secret"
\* PROXY_USER_AGENT (read, but no layer uses it: the SetRequestHeaderLayer
\* that would is commented out)
user_agent == "Instagram 310.0.0.37.328 Android"
\* graceful.shutdown_with_limit(Duration::from_secs(30))
ShutdownLimitSecs == 30

----------------------------------------------------------------------------
(* Headers: a header map is a function from the names present to values *)

EmptyHeaders == [n \in {} |-> ""]

Restrict(h, S) == [n \in (DOMAIN h) \cap S |-> h[n]]

\* the set RemoveRequestHeaderLayer::hop_by_hop / RemoveResponseHeaderLayer::hop_by_hop remove
HopByHop == {"connection", "keep-alive", "proxy-authenticate", "proxy-authorization",
             "te", "trailer", "transfer-encoding", "upgrade"}

\* the header names a Connection value lists (the model's Connection values
\* are either one header name or "close")
ConnectionTokens(h) ==
    IF "connection" \in DOMAIN h /\ h["connection"] # "close"
    THEN {h["connection"]} ELSE {}

\* RemoveRequestHeaderLayer::exact(name)
RemoveExact(h, name) == Restrict(h, (DOMAIN h) \ {name})

\* a removal that also reads the Connection value (RFC 2616, section 14.10)
RemoveHopByHopAndNamed(h) == Restrict(h, (DOMAIN h) \ (HopByHop \cup ConnectionTokens(h)))
\* hop_by_hop(): the fixed list only (RFC 2616, section 13.5.1); the
\* Connection value is not parsed
RemoveHopByHop(h) == Restrict(h, (DOMAIN h) \ HopByHop)

----------------------------------------------------------------------------
(* Messages *)

NoRequest == [method |-> "none", headers |-> EmptyHeaders]
NoResponse == [status |-> 0, headers |-> EmptyHeaders, body |-> ""]
NoOutcome == [kind |-> "none", err |-> "none", resp |-> NoResponse]
NoResult == [kind |-> "none", resp |-> NoResponse]

Methods == {"GET", "CONNECT"}

\* Authorization: absent, or one of these values
AuthorizationValues == {"Bearer secret", "Bearer wrong", "Basic secret"}
AuthorizationChoices ==
    {EmptyHeaders} \cup {("authorization" :> v) : v \in AuthorizationValues}

\* User-Agent: absent, or the client's own
UserAgentChoices == {EmptyHeaders, ("user-agent" :> "curl/8.0")}

ExtraNames == HopByHop \cup {"content-type", "x-custom"}
ExtraValue(n) == IF n = "connection" THEN "x-custom" ELSE "v"
ExtraChoices(k) ==
    {[n \in S |-> ExtraValue(n)] : S \in {T \in SUBSET ExtraNames : Cardinality(T) <= k}}

Requests ==
    {[method |-> m, headers |-> a @@ u @@ x] :
        m \in Methods, a \in AuthorizationChoices,
        u \in UserAgentChoices, x \in ExtraChoices(MaxExtra)}

\* the requests of the shutdown specification
BasicRequests ==
    {[method |-> m, headers |-> a] :
        m \in {"GET"}, a \in {EmptyHeaders, ("authorization" :> "Bearer secret")}}

\* what HttpClient::serve can come back with
UpstreamStatuses == {200, 204, 404}
UpstreamBody(status) == IF status = 204 THEN "" ELSE "data"
ErrorKinds == {"connect", "dns", "tls", "timeout", "body_limit", "bad_target"}

OkOutcome(status, h) ==
    [kind |-> "ok", err |-> "none",
     resp |-> [status |-> status, headers |-> h, body |-> UpstreamBody(status)]]
ErrOutcome(e) == [kind |-> "err", err |-> e, resp |-> NoResponse]

Outcomes ==
    {OkOutcome(s, h) : s \in UpstreamStatuses, h \in ExtraChoices(MaxExtra)}
    \cup {ErrOutcome(e) : e \in ErrorKinds}

BasicOutcomes == {OkOutcome(200, EmptyHeaders), ErrOutcome("connect")}

----------------------------------------------------------------------------
(* The layer stack of the http service, outermost first *)

\* the stack without the bearer validation
LayerStackNoAuth ==
    <<"trace", "remove_authorization",
      "remove_request_hop_by_hop", "remove_response_hop_by_hop">>
\* the stack with lines 54 and 55 exchanged
LayerStackRemoveFirst ==
    <<"trace", "remove_authorization", "validate_bearer",
      "remove_request_hop_by_hop", "remove_response_hop_by_hop">>
\* the stack as main builds it (main.rs:53-61, the commented-out
\* SetRequestHeaderLayer left out)
LayerStack ==
    <<"trace", "validate_bearer", "remove_authorization",
      "remove_request_hop_by_hop", "remove_response_hop_by_hop">>

\* a validation that looks at the scheme only
AnyBearerAccepted(h) ==
    "authorization" \in DOMAIN h /\ h["authorization"] \in {"Bearer secret", "Bearer wrong"}
\* ValidateRequestHeaderLayer::bearer(&auth_token): the Authorization value
\* must be exactly "Bearer <token>"
BearerAccepted(h) ==
    "authorization" \in DOMAIN h /\ h["authorization"] = "Bearer " \o auth_token

\* the response the bearer validation rejects with: 401 and a default body
Unauthorized == [status |-> 401, headers |-> EmptyHeaders, body |-> ""]

\* the state a request carries down the stack
Inbound0(req) ==
    [req |-> req, auth |-> "none", authEvals |-> 0,
     rejected |-> FALSE, depth |-> 0, resp |-> NoResponse]

\* one layer's request side; a rejected request goes no deeper
RequestLayer(layer, s) ==
    IF s.rejected THEN s
    ELSE LET t == [s EXCEPT !.depth = @ + 1] IN
         CASE layer = "validate_bearer" ->
                IF BearerAccepted(s.req.headers)
                THEN [t EXCEPT !.auth = "Authorized", !.authEvals = @ + 1]
                ELSE [t EXCEPT !.auth = "Unauthorized", !.authEvals = @ + 1,
                               !.rejected = TRUE, !.depth = s.depth,
                               !.resp = Unauthorized]
           [] layer = "remove_authorization" ->
                [t EXCEPT !.req.headers = RemoveExact(@, "authorization")]
           [] layer = "remove_request_hop_by_hop" ->
                [t EXCEPT !.req.headers = RemoveHopByHop(@)]
           [] OTHER -> t

RECURSIVE InboundFrom(_, _)
InboundFrom(i, s) ==
    IF i > Len(LayerStack) THEN s
    ELSE InboundFrom(i + 1, RequestLayer(LayerStack[i], s))

Inbound(req) == InboundFrom(1, Inbound0(req))

\* one layer's response side
ResponseLayer(layer, resp) ==
    IF layer = "remove_response_hop_by_hop"
    THEN [resp EXCEPT !.headers = RemoveHopByHop(@)]
    ELSE resp

\* a response produced under the first `depth` layers travels them outwards
RECURSIVE Outbound(_, _)
Outbound(depth, resp) ==
    IF depth = 0 THEN resp
    ELSE Outbound(depth - 1, ResponseLayer(LayerStack[depth], resp))

\* a dispatch on the method, to a tunnel path for CONNECT
DispatchConnectToTunnel(req) == IF req.method = "CONNECT" THEN "tunnel" ELSE "plain"
\* .service_fn(http_plain_proxy): the one service under the stack, whatever
\* the method
Dispatch(req) == "plain"

\* a handler answering 502 to connection and DNS failures
PlainProxyBadGateway(outcome) ==
    IF outcome.kind = "ok"
    THEN [kind |-> "Ok", resp |-> outcome.resp]
    ELSE [kind |-> "Ok",
          resp |-> [status |-> IF outcome.err \in {"connect", "dns"} THEN 502 ELSE 500,
                    headers |-> EmptyHeaders, body |-> ""]]
\* a handler turning an upstream 204 into 200
PlainProxyRewritesStatus(outcome) ==
    IF outcome.kind = "ok"
    THEN [kind |-> "Ok",
          resp |-> [outcome.resp EXCEPT !.status = IF @ = 204 THEN 200 ELSE @]]
    ELSE [kind |-> "Ok",
          resp |-> [status |-> 500, headers |-> EmptyHeaders, body |-> ""]]
\* a handler returning the client's error to the serving task
PlainProxyPropagatesError(outcome) ==
    IF outcome.kind = "ok"
    THEN [kind |-> "Ok", resp |-> outcome.resp]
    ELSE [kind |-> "Err", resp |-> NoResponse]
\* http_plain_proxy: Ok(resp) => Ok(resp); Err(_) => Ok(500, empty body)
http_plain_proxy(outcome) ==
    IF outcome.kind = "ok"
    THEN [kind |-> "Ok", resp |-> outcome.resp]
    ELSE [kind |-> "Ok",
          resp |-> [status |-> 500, headers |-> EmptyHeaders, body |-> ""]]

----------------------------------------------------------------------------
(* Sessions *)

Conns == 1 .. MaxConns

ClosedSession ==
    [stage |-> "closed", req |-> NoRequest, auth |-> "none", authEvals |-> 0,
     path |-> "none", sent |-> NoRequest, upstream |-> NoOutcome, result |-> NoResult]
OpenSession == [ClosedSession EXCEPT !.stage = "open"]

\* a session the shutdown waits for: its task holds a guard
Active(c) == conn[c].stage \in {"open", "upstream", "responded"}

Init ==
    /\ phase = "serving"
    /\ exit = "none"
    /\ elapsed = 0
    /\ conn = [c \in Conns |-> ClosedSession]

\* an accept loop that keeps accepting while main is draining
AcceptIgnoringShutdown(c) ==
    /\ phase # "exited"
    /\ conn[c].stage \in {"closed"}
    /\ conn' = [conn EXCEPT ![c] = OpenSession]
    /\ UNCHANGED <<phase, exit, elapsed>>
\* serve_graceful's accept loop: runs until the guard is cancelled
Accept(c) ==
    /\ phase = "serving"
    /\ conn[c].stage \in {"closed"}
    /\ conn' = [conn EXCEPT ![c] = OpenSession]
    /\ UNCHANGED <<phase, exit, elapsed>>

\* a request arrives: it runs down the stack up to the first await, which is
\* either the rejection's response or http_plain_proxy's client.serve(..).await
Receive(c, requests) ==
    /\ phase = "serving"
    /\ conn[c].stage = "open"
    /\ \E req \in requests :
       LET s == Inbound(req) IN
       conn' = [conn EXCEPT ![c] =
                  IF s.rejected
                  THEN [OpenSession EXCEPT
                          !.stage = "responded", !.req = req,
                          !.auth = s.auth, !.authEvals = s.authEvals,
                          !.result = [kind |-> "Ok", resp |-> Outbound(s.depth, s.resp)]]
                  ELSE [OpenSession EXCEPT
                          !.stage = "upstream", !.req = req,
                          !.auth = s.auth, !.authEvals = s.authEvals,
                          !.path = Dispatch(s.req), !.sent = s.req]]
    /\ UNCHANGED <<phase, exit, elapsed>>

\* client.serve(ctx, req).await completes; the response travels the stack back
UpstreamReturns(c, outcomes) ==
    /\ phase # "exited"
    /\ conn[c].stage = "upstream"
    /\ conn[c].path = "plain"
    /\ \E outcome \in outcomes :
       LET r == http_plain_proxy(outcome) IN
       conn' = [conn EXCEPT ![c] =
                  [@ EXCEPT !.stage = "responded", !.upstream = outcome,
                            !.result = [r EXCEPT !.resp =
                                          IF r.kind = "Ok"
                                          THEN Outbound(Len(LayerStack), r.resp)
                                          ELSE @]]]
    /\ UNCHANGED <<phase, exit, elapsed>>

\* the response is written; the connection is kept alive for the next request
KeepAlive(c) ==
    /\ phase = "serving"
    /\ conn[c].stage = "responded"
    /\ conn' = [conn EXCEPT ![c] = OpenSession]
    /\ UNCHANGED <<phase, exit, elapsed>>

\* the connection ends: the client closes it, or the server does once the
\* shutdown has begun and no request is in flight on it
Close(c) ==
    /\ phase # "exited"
    /\ conn[c].stage \in {"open", "responded"}
    /\ conn' = [conn EXCEPT ![c] = ClosedSession]
    /\ UNCHANGED <<phase, exit, elapsed>>

\* the termination signal (ctrl-c / SIGTERM) cancels the guard
Signal ==
    /\ phase = "serving"
    /\ phase' = "draining"
    /\ UNCHANGED <<exit, elapsed, conn>>

\* a second of the grace period passes
Tick ==
    /\ phase = "draining"
    /\ elapsed < ShutdownLimitSecs
    /\ elapsed' = elapsed + 1
    /\ UNCHANGED <<phase, exit, conn>>

\* shutdown_with_limit returns Ok: every guard was dropped in time
ShutdownComplete ==
    /\ phase = "draining"
    /\ \A c \in Conns : ~Active(c)
    /\ phase' = "exited"
    /\ exit' = "ok"
    /\ UNCHANGED <<elapsed, conn>>

\* a timeout after which the tasks still running are left alone
ShutdownTimeoutLeavesTasks ==
    /\ phase = "draining"
    /\ elapsed = ShutdownLimitSecs
    /\ \E c \in Conns : Active(c)
    /\ phase' = "exited"
    /\ exit' = "timeout"
    /\ UNCHANGED <<elapsed, conn>>
\* shutdown_with_limit returns the timeout error, main returns it and the
\* runtime drops every task that is still running
ShutdownTimeout ==
    /\ phase = "draining"
    /\ elapsed = ShutdownLimitSecs
    /\ \E c \in Conns : Active(c)
    /\ phase' = "exited"
    /\ exit' = "timeout"
    /\ conn' = [c \in Conns |->
                  IF Active(c) THEN [conn[c] EXCEPT !.stage = "aborted"] ELSE conn[c]]
    /\ UNCHANGED elapsed

\* one connection, every request and every upstream outcome
Next ==
    \/ Accept(1)
    \/ Receive(1, Requests)
    \/ UpstreamReturns(1, Outcomes)
    \/ KeepAlive(1)
    \/ Close(1)

Spec == Init /\ [][Next]_vars

\* concurrent connections under the shutdown
NextShutdown ==
    \/ \E c \in Conns : Accept(c)
    \/ \E c \in Conns : Receive(c, BasicRequests)
    \/ \E c \in Conns : UpstreamReturns(c, BasicOutcomes)
    \/ \E c \in Conns : KeepAlive(c)
    \/ \E c \in Conns : Close(c)
    \/ Signal
    \/ Tick
    \/ ShutdownComplete
    \/ ShutdownTimeout

SpecShutdown == Init /\ [][NextShutdown]_vars

----------------------------------------------------------------------------
(* Vocabulary of the properties, stated apart from the layers' definitions *)

Handed(c) == conn[c].sent # NoRequest

CarriesConfiguredToken(req) ==
    /\ "authorization" \in DOMAIN req.headers
    /\ req.headers["authorization"] = "Bearer secret"

Received(c) == conn[c].req # NoRequest

Status(c) == conn[c].result.resp.status

FixedHopByHopSet ==
    {"connection", "keep-alive", "proxy-authenticate", "proxy-authorization",
     "te", "trailer", "transfer-encoding", "upgrade"}

NamedByConnection(h) ==
    IF "connection" \in DOMAIN h THEN {h["connection"]} \ {"close"} ELSE {}

Without(h, S) == [n \in (DOMAIN h) \ S |-> h[n]]

----------------------------------------------------------------------------
(* C1: a request is handed to the upstream HTTP client (or dispatched to    *)
(* any path) only after its credential check returned Authorized, and the  *)
(* check is evaluated at most once per request.                             *)
C1_ForwardOnlyAfterAuthorized ==
    \A c \in Conns :
        /\ conn[c].authEvals <= 1
        /\ (Handed(c) \/ conn[c].path # "none" \/ conn[c].stage = "upstream"
            \/ conn[c].upstream # NoOutcome)
           => (conn[c].auth = "Authorized" /\ conn[c].authEvals = 1)

C1_Witness ==
    \E c \in Conns :
        /\ conn[c].stage = "upstream" /\ Handed(c)
        /\ conn[c].auth = "Authorized" /\ conn[c].authEvals = 1

(* C2, as stated: a request whose bearer token is absent or differs from    *)
(* the configured one is answered 401 with body "unauthorized", and no      *)
(* upstream request is issued for it.                                      *)
C2_UnauthorizedBodyAsStated ==
    \A c \in Conns :
        (Received(c) /\ ~CarriesConfiguredToken(conn[c].req))
        => /\ conn[c].stage = "responded"
           /\ Status(c) = 401
           /\ conn[c].result.resp.body = "unauthorized"
           /\ ~Handed(c) /\ conn[c].path = "none" /\ conn[c].upstream = NoOutcome

(* C2, amended: such a request is answered 401 with an empty body, and no   *)
(* upstream request is issued and no path is dispatched for it.            *)
C2_UnauthorizedShortCircuits ==
    \A c \in Conns :
        (Received(c) /\ ~CarriesConfiguredToken(conn[c].req))
        => /\ conn[c].stage = "responded"
           /\ conn[c].result.kind = "Ok"
           /\ Status(c) = 401
           /\ conn[c].result.resp.body = ""
           /\ ~Handed(c) /\ conn[c].path = "none" /\ conn[c].upstream = NoOutcome

C2_Witness ==
    \E c \in Conns :
        /\ conn[c].stage = "responded"
        /\ "authorization" \in DOMAIN conn[c].req.headers
        /\ conn[c].req.headers["authorization"] = "Bearer wrong"
        /\ Status(c) = 401

(* C3, as stated: when the upstream cannot be reached, the status returned  *)
(* is 502 whatever the kind of error, with no upstream body.               *)
C3_UnreachableIs502AsStated ==
    \A c \in Conns :
        (conn[c].stage = "responded" /\ conn[c].upstream.kind = "err")
        => (Status(c) = 502 /\ conn[c].result.resp.body = "")

(* C3, amended: when the upstream client fails, the status returned is 500  *)
(* whatever the kind of error, with an empty body and no headers.          *)
C3_UnreachableIs500 ==
    \A c \in Conns :
        (conn[c].stage = "responded" /\ conn[c].upstream.kind = "err")
        => /\ Status(c) = 500
           /\ conn[c].result.resp.body = ""
           /\ conn[c].result.resp.headers = EmptyHeaders

C3_Witness ==
    \E c \in Conns :
        /\ conn[c].stage = "responded"
        /\ conn[c].upstream.kind = "err" /\ conn[c].upstream.err = "dns"
        /\ conn[c].auth = "Authorized"
        /\ Status(c) = 500

(* C4, as stated: an authorized CONNECT request is dispatched to the tunnel *)
(* path rather than the plain-forward path.                                *)
C4_ConnectTunnelsAsStated ==
    \A c \in Conns :
        (conn[c].auth = "Authorized" /\ conn[c].req.method = "CONNECT")
        => (conn[c].path = "tunnel" /\ ~Handed(c))

(* C4, amended: an authorized CONNECT request is dispatched to the          *)
(* plain-forward path like any other method: it is handed to the upstream  *)
(* HTTP client with its method, and the client receives the upstream's     *)
(* status, or 500 when the upstream client fails.                          *)
C4_ConnectIsPlainForwarded ==
    \A c \in Conns :
        (conn[c].auth = "Authorized" /\ conn[c].req.method = "CONNECT")
        => /\ conn[c].path = "plain"
           /\ Handed(c) /\ conn[c].sent.method = "CONNECT"
           /\ conn[c].stage = "responded"
              => Status(c) = IF conn[c].upstream.kind = "ok"
                             THEN conn[c].upstream.resp.status ELSE 500

C4_Witness ==
    \E c \in Conns :
        /\ conn[c].auth = "Authorized" /\ conn[c].req.method = "CONNECT"
        /\ conn[c].stage = "responded" /\ conn[c].path = "plain"
        /\ conn[c].upstream.kind = "ok" /\ Status(c) = 404

(* C5: the request sent upstream carries a User-Agent equal to the          *)
(* configured user agent, whatever the inbound request carried.            *)
C5_UserAgentOverridden ==
    \A c \in Conns :
        Handed(c)
        => /\ "user-agent" \in DOMAIN conn[c].sent.headers
           /\ conn[c].sent.headers["user-agent"] = user_agent

(* C6: after the termination signal no new connection is accepted; a        *)
(* session is forcibly closed only by the expiry of the 30-second grace    *)
(* period, and once main has returned no session is running.               *)
C6_GracefulShutdown ==
    /\ [][phase # "serving" => \A c \in Conns : ~Active(c) => ~Active(c)']_vars
    /\ [](phase = "exited" => \A c \in Conns : ~Active(c))
    /\ [](\A c \in Conns :
            conn[c].stage = "aborted"
            => (exit = "timeout" /\ elapsed = 30 /\ phase = "exited"))
    /\ [](exit = "ok" => \A c \in Conns : conn[c].stage = "closed")

C6_Witness ==
    /\ phase = "exited" /\ exit = "timeout" /\ elapsed = 30
    /\ \E c \in Conns : conn[c].stage = "aborted" /\ conn[c].upstream = NoOutcome /\ Handed(c)
    /\ \E c \in Conns : conn[c].stage = "closed"

(* C7, as stated: neither the request sent upstream nor the response        *)
(* returned contains a header of the hop-by-hop set or a header named in a *)
(* Connection value; all other headers are left as they were.              *)
C7_HopByHopAsStated ==
    \A c \in Conns :
        /\ Handed(c)
           => conn[c].sent.headers =
                Without(conn[c].req.headers,
                        FixedHopByHopSet \cup NamedByConnection(conn[c].req.headers))
        /\ (conn[c].stage = "responded" /\ conn[c].upstream.kind = "ok")
           => conn[c].result.resp.headers =
                Without(conn[c].upstream.resp.headers,
                        FixedHopByHopSet
                        \cup NamedByConnection(conn[c].upstream.resp.headers))

(* C7, amended: neither the request sent upstream nor the response returned *)
(* contains a header of the fixed hop-by-hop set; the request also loses   *)
(* its Authorization header; every other header, one named in a Connection *)
(* value included, is left as it was.                                      *)
C7_FixedHopByHopRemoved ==
    \A c \in Conns :
        /\ Handed(c)
           => conn[c].sent.headers =
                Without(conn[c].req.headers, FixedHopByHopSet \cup {"authorization"})
        /\ (conn[c].stage = "responded" /\ conn[c].upstream.kind = "ok")
           => conn[c].result.resp.headers =
                Without(conn[c].upstream.resp.headers, FixedHopByHopSet)

C7_Witness ==
    \E c \in Conns :
        /\ conn[c].stage = "responded" /\ conn[c].upstream.kind = "ok"
        /\ DOMAIN conn[c].req.headers = {"authorization", "connection", "x-custom"}
        /\ DOMAIN conn[c].sent.headers = {"x-custom"}
        /\ DOMAIN conn[c].upstream.resp.headers = {"upgrade", "content-type"}
        /\ DOMAIN conn[c].result.resp.headers = {"content-type"}

(* C8: when the upstream produces a response, the status returned equals    *)
(* the upstream status exactly (non-2xx and 204 with an empty body         *)
(* included), the body is the upstream's, and the handler reports no error. *)
C8_StatusIsUpstreamStatus ==
    \A c \in Conns :
        (conn[c].stage = "responded" /\ conn[c].upstream.kind = "ok")
        => /\ conn[c].result.kind = "Ok"
           /\ Status(c) = conn[c].upstream.resp.status
           /\ conn[c].result.resp.body = conn[c].upstream.resp.body

C8_Witness ==
    \E c \in Conns :
        /\ conn[c].stage = "responded" /\ conn[c].upstream.kind = "ok"
        /\ conn[c].upstream.resp.status = 204
        /\ Status(c) = 204 /\ conn[c].result.resp.body = ""

(* C9: every request-time failure is recovered: the handler returns a       *)
(* response, never an error, and its status is the upstream's or one of    *)
(* 400, 401, 404, 500, 502.                                                 *)
C9_FailuresRecovered ==
    \A c \in Conns :
        conn[c].stage = "responded"
        => /\ conn[c].result.kind = "Ok"
           /\ \/ conn[c].upstream.kind = "ok" /\ Status(c) = conn[c].upstream.resp.status
              \/ conn[c].upstream.kind # "ok" /\ Status(c) \in {400, 401, 404, 500, 502}

C9_Witness ==
    \E c \in Conns :
        /\ conn[c].stage = "responded"
        /\ conn[c].upstream.kind = "err" /\ conn[c].upstream.err = "body_limit"
        /\ conn[c].result.kind = "Ok" /\ Status(c) = 500

(* C10: the Authorization header is removed only after the bearer check has *)
(* read it: a request carrying the configured token passes the check and   *)
(* reaches the forwarder, and the request sent upstream never contains an  *)
(* Authorization header.                                                    *)
C10_AuthorizationReadThenStripped ==
    \A c \in Conns :
        /\ (Received(c) /\ CarriesConfiguredToken(conn[c].req))
           => (conn[c].auth = "Authorized" /\ Handed(c) /\ conn[c].path = "plain")
        /\ "authorization" \notin DOMAIN conn[c].sent.headers

C10_Witness ==
    \E c \in Conns :
        /\ conn[c].stage = "upstream"
        /\ CarriesConfiguredToken(conn[c].req)
        /\ Handed(c) /\ "authorization" \notin DOMAIN conn[c].sent.headers

====
